---- MODULE Spec2Model ----
(***************************************************************************)
(* Model of src/Sprite.js (leopard): the _EffectMap bitmask wrapper, the   *)
(* Sprite clone hierarchy (createClone / deleteThisClone / andClones), the *)
(* costume setters, and the generator procedures broadcastAndWait and      *)
(* glide, together with the part of the Project scheduler they run on.     *)
(*                                                                         *)
(* Objects live in heaps (sequences indexed by object id): sprites,        *)
(* effectMaps, varObjs, lists and triggerObjs.  A field that holds an      *)
(* object in JavaScript holds the object's id here, so that sharing a      *)
(* reference and copying a value are different things in the model too.    *)
(***************************************************************************)
EXTENDS Integers, Sequences, FiniteSets, TLC

VARIABLES
  sprites,          \* heap of Sprite objects; sprites[1] is the original sprite
  effectMaps,       \* heap of _EffectMap objects
  varObjs,          \* heap of the objects held in Sprite._vars
  lists,            \* heap of the arrays that list-valued variables refer to
  triggerObjs,      \* heap of Trigger objects
  tasks,            \* per Trigger object: the state of its running script
  runningTriggers,  \* Project.runningTriggers: sequence of {trigger, target}
  promises,         \* promises returned by Project.fireTrigger
  tick,             \* the scheduler pass in progress (or idle)
  control,          \* the script instance that holds control (or none)
  deleted,          \* history: clones on which deleteThisClone() has acted
  resumedDeleted,   \* history: tasks resumed although their target was deleted
  now,              \* wall clock, in clock units
  glideTask,        \* the local state of one running glide() generator
  effectChains,     \* heap of EffectChain objects (audio effect routing)
  warp,             \* the call of a warp()-ed procedure in progress (or none)
  waitTask,         \* the local state of one running wait() generator
  sayTasks,         \* the local state of the sayAndWait/thinkAndWait generators
  bubble,           \* _speechBubble of the original sprite
  timers,           \* the timers made by setTimeout
  noopDelete,       \* history: what the last deleteThisClone() that returned at once found
  randomCall        \* history: what the last observed "random costume" found and drew

vars == <<sprites, effectMaps, varObjs, lists, triggerObjs, tasks,
          runningTriggers, promises, tick, control, deleted, resumedDeleted,
          now, glideTask, effectChains, warp, waitTask, sayTasks, bubble,
          timers, noopDelete, randomCall>>

\* ---------------------------------------------------------------- bounds
MaxSprites == 4
MaxSchedSprites == 2
MaxEffectSprites == 3
MaxVarSprites == 2
MaxListLen == 2
MaxCostumes == 4
MaxCostumeSprites == 3
MaxCostumeArg == 7
MaxBroadcasts == 1
MaxSecs == 2
MaxTime == 2200
MaxCoord == 1
MaxSayTasks == 2
MaxWarpYields == 2
MaxWaitYields == 2
MaxTurns == 24
MaxDirSprites == 2
MaxStateSprites == 2
MaxFieldChanges == 2
MaxAudioSprites == 4
MaxRandomSprites == 2

Null == 0

\* ------------------------------------------------------ 32-bit operators
\* JavaScript's bitwise operators work on 32-bit two's complement integers.
\* n \div 2 rounds down and n % 2 is never negative, so they are the
\* arithmetic shift right and the lowest bit of a two's complement integer.
RECURSIVE Pow2(_)
Pow2(n) == IF n = 0 THEN 1 ELSE 2 * Pow2(n - 1)

\* a & b
RECURSIVE BitAnd(_, _)
BitAnd(a, b) ==
  IF a = 0 \/ b = 0 THEN 0
  ELSE IF a = 0 - 1 THEN b
  ELSE IF b = 0 - 1 THEN a
  ELSE (a % 2) * (b % 2) + 2 * BitAnd(a \div 2, b \div 2)

\* a | b
RECURSIVE BitOr(_, _)
BitOr(a, b) ==
  IF a = 0 THEN b
  ELSE IF b = 0 THEN a
  ELSE IF a = 0 - 1 \/ b = 0 - 1 THEN 0 - 1
  ELSE (IF a % 2 = 1 \/ b % 2 = 1 THEN 1 ELSE 0) + 2 * BitOr(a \div 2, b \div 2)

\* ~a
BitNot(a) == (0 - a) - 1

\* 1 << i: the shift count is taken modulo 32, and bit 31 is the sign bit
Shl1(i) == IF i % 32 = 31 THEN (0 - Pow2(30)) * 2 ELSE Pow2(i % 32)

\* bit i (0-based, i < 31) of a 32-bit integer
Bit(mask, i) == (mask \div Pow2(i)) % 2

\* ------------------------------------------------------------ _EffectMap
\* the registered effect names; the index of a name is its bit position + 1
effectNames == <<"color", "ghost">>

\* the values scripts assign to effects
EffectVals == {0, 25, -10}

\* new _EffectMap()
NewEffectMap ==
  [bitmask |-> 0, effectValues |-> [n \in 1..Len(effectNames) |-> 0]]

\* a setter that stores the value and forgets the bitmask
EffectSetStale(m, k, val) == [m EXCEPT !.effectValues[k] = val]

\* a setter that clears the whole bitmask when a value is set to 0
EffectSetClearsAll(m, k, val) ==
  [effectValues |-> [m.effectValues EXCEPT ![k] = val],
   bitmask |-> IF val = 0 THEN 0 ELSE BitOr(m.bitmask, Shl1(k - 1))]

\* the property setter of effect number k (bit k - 1):  m[effectNames[k-1]] = val
EffectSet(m, k, val) ==
  [effectValues |-> [m.effectValues EXCEPT ![k] = val],
   bitmask |-> IF val = 0
               THEN BitAnd(m.bitmask, BitNot(Shl1(k - 1)))
               ELSE BitOr(m.bitmask, Shl1(k - 1))]

\* the loop of _clone(): m[effectName] = this[effectName], for the first k names
RECURSIVE EffectCopyLoop(_, _, _)
EffectCopyLoop(m, src, k) ==
  IF k = 0 THEN m
  ELSE EffectSet(EffectCopyLoop(m, src, k - 1), k, src.effectValues[k])

\* _EffectMap._clone()
EffectMapClone(src) == EffectCopyLoop(NewEffectMap, src, Len(effectNames))

\* _EffectMap.clear()
EffectMapClear(m) ==
  [effectValues |-> [n \in DOMAIN m.effectValues |-> 0], bitmask |-> 0]

\* --------------------------------------------------------------- Trigger
GREEN_FLAG == "GREEN_FLAG"
CLONE_START == "CLONE_START"
BROADCAST == "BROADCAST"

\* the broadcast names scripts use
BroadcastNames == {"go", "unheard"}

\* new Trigger(trigger, options, script)
NewTrigger(kind, options, script) ==
  [trigger |-> kind, options |-> options, script |-> script]

\* a script that has never been started
IdleTask == [st |-> "idle", gen |-> 0, mode |-> "body", promise |-> Null]

\* Trigger.matches(trigger, options, target): same kind, and every fired
\* option equals the trigger's ("" stands for no option fired)
TriggerMatches(t, kind, options) ==
  /\ triggerObjs[t].trigger = kind
  /\ options # "" => triggerObjs[t].options = options

\* ------------------------------------------------------ Project scheduler
\* the {trigger, target} pairs of a sequence that are not yet in rt, appended
RECURSIVE PushNew(_, _)
PushNew(rt, pairs) ==
  IF pairs = <<>> THEN rt
  ELSE LET p == Head(pairs)
           known == \E i \in 1..Len(rt) :
                      rt[i].trigger = p.trigger /\ rt[i].target = p.target
       IN PushNew(IF known THEN rt ELSE Append(rt, p), Tail(pairs))

\* Trigger.start(): a fresh instance of the script, waiting for its first step
StartTask(tk) ==
  [st |-> "pending", gen |-> tk.gen + 1, mode |-> "body", promise |-> Null]

\* Project._startTriggers(pairs), on the task table tk
StartTasks(tk, pairs) ==
  [t \in DOMAIN tk |->
     IF \E i \in 1..Len(pairs) : pairs[i].trigger = t
     THEN StartTask(tk[t]) ELSE tk[t]]

\* the script instances a promise of _startTriggers(pairs) waits for
StartedSet(tk, pairs) ==
  {<<pairs[i].trigger, tk[pairs[i].trigger].gen + 1>> : i \in 1..Len(pairs)}

\* ---------------------------------------------------------------- Sprite
\* a rational number n/d in lowest terms, d > 0
RECURSIVE Gcd(_, _)
Gcd(a, b) == IF b = 0 THEN a ELSE Gcd(b, a % b)

Abs(n) == IF n < 0 THEN 0 - n ELSE n

Rat(n, d) ==
  LET g == Gcd(Abs(n), d) IN [n |-> n \div g, d |-> d \div g]

RatOf(n) == [n |-> n, d |-> 1]

NumVal(n) == [kind |-> "num", val |-> n]
ListVal(id) == [kind |-> "list", val |-> id]

\* new Sprite(initialConditions, vars) with `costumes` costumes
NewSprite(costumes) ==
  [x |-> RatOf(0), y |-> RatOf(0), direction |-> 90,
   rotationStyle |-> "ALL_AROUND", costumeNumber |-> 1, costumes |-> costumes,
   size |-> 100, visible |-> TRUE,
   parent |-> Null, clones |-> <<>>,
   penDown |-> FALSE, penSize |-> 1, penColor |-> "rgb(0,0,255)",
   effects |-> 1, vars |-> 1, triggers |-> <<1, 2, 3>>, effectChain |-> 1]

\* new EffectChain(config): no audio effect applied; clonedFrom records the
\* chain whose clone() made this one
NewEffectChain == [pitch |-> 0, clonedFrom |-> Null]

\* EffectChain.clone(config), called on chain c: a new chain with c's values
EffectChainClone(c) == [pitch |-> effectChains[c].pitch, clonedFrom |-> c]

\* Sprite.andClones(): this sprite, then its clones' andClones(), in order
RECURSIVE andClones(_)
RECURSIVE FlatAndClones(_)
FlatAndClones(cs) ==
  IF cs = <<>> THEN <<>> ELSE andClones(Head(cs)) \o FlatAndClones(Tail(cs))
andClones(e) == <<e>> \o FlatAndClones(sprites[e].clones)

\* the triggers of sprite record s that match, as {trigger, target} pairs
MatchingPairs(trigs, kind, options, target) ==
  LET m == SelectSeq(trigs, LAMBDA t : TriggerMatches(t, kind, options))
  IN [i \in 1..Len(m) |-> [trigger |-> m[i], target |-> target]]

\* Project.fireTrigger: the matching {trigger, target} pairs over the sprites
\* of a list, in the order of the list and of each sprite's triggers
RECURSIVE MatchingOverClones(_, _, _)
MatchingOverClones(targets, kind, options) ==
  IF targets = <<>> THEN <<>>
  ELSE MatchingPairs(sprites[Head(targets)].triggers, kind, options, Head(targets))
         \o MatchingOverClones(Tail(targets), kind, options)

\* clone.triggers = this.triggers.map(trigger => new Trigger(...))
ClonedTriggers(e) ==
  [i \in 1..Len(sprites[e].triggers) |->
     triggerObjs[sprites[e].triggers[i]]]

\* a createClone() that clones the routing of the sprite it is called on
OriginalSelf(e) == e

\* let original = this; while (original.parent) original = original.parent
RECURSIVE Original(_)
Original(e) == IF sprites[e].parent # Null THEN Original(sprites[e].parent) ELSE e

\* a createClone() that constructs the clone anew
ClonedSpriteFresh(e) == NewSprite(sprites[e].costumes)

\* Object.assign(Object.create(Object.getPrototypeOf(this)), this)
ClonedSprite(e) == sprites[e]

\* a createClone() that leaves the origin's _EffectMap object in the clone
CloneEffectsShared(e) == [heap |-> effectMaps, ref |-> sprites[e].effects]

\* clone.effects = this.effects._clone(): the heap with the new map, and its id
CloneEffects(e) ==
  [heap |-> Append(effectMaps, EffectMapClone(effectMaps[sprites[e].effects])),
   ref |-> Len(effectMaps) + 1]

\* clone._vars = Object.assign({}, this._vars): a new object holding the same
\* values, a list-valued variable holding the same array
CloneVars(e) ==
  [heap |-> Append(varObjs, varObjs[sprites[e].vars]),
   ref |-> Len(varObjs) + 1]

\* a createClone() that starts every script of the clone
CloneStartTriggersAll(trigIds, trigs) == trigIds

\* clone.triggers.filter(tr => tr.matches(Trigger.CLONE_START, {}, clone))
CloneStartTriggers(trigIds, trigs) ==
  SelectSeq(trigIds, LAMBDA t : trigs[t].trigger = CLONE_START)

\* Sprite.createClone(), called on sprite e
CreateClone(e) ==
  LET c == Len(sprites) + 1
      nt == Len(sprites[e].triggers)
      trigIds == [i \in 1..nt |-> Len(triggerObjs) + i]
      clone == [ClonedSprite(e) EXCEPT
                  !.triggers = trigIds,
                  !.vars = CloneVars(e).ref,
                  !.effects = CloneEffects(e).ref,
                  !.effectChain = Len(effectChains) + 1,
                  !.clones = <<>>,
                  !.parent = e]
      newTrigs == triggerObjs \o ClonedTriggers(e)
      started == LET m == CloneStartTriggers(trigIds, newTrigs)
                 IN [i \in 1..Len(m) |-> [trigger |-> m[i], target |-> c]]
  IN /\ sprites' = Append([sprites EXCEPT ![e].clones = Append(@, c)], clone)
     /\ triggerObjs' = newTrigs
     /\ varObjs' = CloneVars(e).heap
     /\ effectMaps' = CloneEffects(e).heap
     /\ effectChains' = Append(effectChains,
                               EffectChainClone(sprites[Original(e)].effectChain))
     /\ tasks' = StartTasks(tasks \o [i \in 1..nt |-> IdleTask], started)
     /\ runningTriggers' = PushNew(runningTriggers, started)
     /\ UNCHANGED <<lists, promises, deleted>>

\* a deleteThisClone() that leaves the clone's tasks in the running set
RunningAfterDeleteKeep(e) == runningTriggers

\* a deleteThisClone() that also drops the tasks of the clone's parent
RunningAfterDeleteParent(e) ==
  SelectSeq(runningTriggers,
            LAMBDA r : r.target # e /\ r.target # sprites[e].parent)

\* this._project.runningTriggers.filter(({ target }) => target !== this)
RunningAfterDelete(e) ==
  SelectSeq(runningTriggers, LAMBDA r : r.target # e)

\* a deleteThisClone() that empties the parent's clone list
ClonesAfterDeleteAll(e) == <<>>

\* this.parent.clones.filter(clone => clone !== this)
ClonesAfterDelete(e) ==
  SelectSeq(sprites[sprites[e].parent].clones, LAMBDA c : c # e)

\* a deleteThisClone() that cancels the sprite's tasks also when it has no
\* parent
DeleteThisCloneAlways(e) ==
  /\ sprites' = IF sprites[e].parent = Null THEN sprites
                ELSE [sprites EXCEPT ![sprites[e].parent].clones =
                                       ClonesAfterDelete(e)]
  /\ runningTriggers' = RunningAfterDelete(e)
  /\ deleted' = IF sprites[e].parent = Null THEN deleted ELSE deleted \cup {e}

\* Sprite.deleteThisClone(), called on sprite e
DeleteThisClone(e) ==
  IF sprites[e].parent = Null
  THEN UNCHANGED <<sprites, runningTriggers, deleted>>
  ELSE /\ sprites' = [sprites EXCEPT ![sprites[e].parent].clones =
                                        ClonesAfterDelete(e)]
       /\ runningTriggers' = RunningAfterDelete(e)
       /\ deleted' = deleted \cup {e}

\* -------------------------------------------------------------- costumes
\* Math.floor(a / b) for b > 0
FloorDiv(a, b) == a \div b

\* a wrapClamp that clamps to the nearer limit
wrapClampSaturate(n, min, max) == IF n < min THEN min ELSE IF n > max THEN max ELSE n

\* SpriteBase.wrapClamp(n, min, max)
wrapClamp(n, min, max) ==
  LET range == (max - min) + 1
  IN n - (FloorDiv(n - min, range) * range)

\* set costumeNumber(number), on sprite record s
WithCostumeNumber(s, number) ==
  [s EXCEPT !.costumeNumber = wrapClamp(number, 1, s.costumes)]

\* "random costume" without the step over the current costume
RandomCostumeNoSkip(s, r) == 1 + r

\* "random costume": the value assigned for Math.floor(Math.random() *
\* possibleOptions) = r
RandomCostume(s, r) ==
  LET lower == 1
      upper == s.costumes
      excluded == s.costumeNumber
      randInt == lower + r
  IN IF randInt >= excluded THEN randInt + 1 ELSE randInt

\* the values Math.floor(Math.random() * possibleOptions) can take
RandomDraws(s) == IF s.costumes - 1 >= 1 THEN 0..(s.costumes - 2) ELSE {0}

\* ------------------------------------------------------------------ glide
MsPerSecond == 1000

RatAdd(a, b) == Rat(a.n * b.d + b.n * a.d, a.d * b.d)
RatSub(a, b) == Rat(a.n * b.d - b.n * a.d, a.d * b.d)
RatMul(a, b) == Rat(a.n * b.n, a.d * b.d)
RatLess(a, b) == a.n * b.d < b.n * a.d

\* const interpolate = (a, b, t) => a + (b - a) * t
interpolate(a, b, t) == RatAdd(a, RatMul(RatSub(b, a), t))

\* Sprite.goto(x, y), on sprite record s
Goto(s, x, y) ==
  IF x = s.x /\ y = s.y THEN s ELSE [s EXCEPT !.x = x, !.y = y]

\* one pass through the body of glide's do-loop, up to its yield
GlideIteration(g) ==
  LET t == Rat(now - g.startTime, g.seconds * MsPerSecond)
  IN [task |-> [g EXCEPT !.st = "suspended", !.t = t],
      sprite |-> Goto(sprites[g.sprite],
                      interpolate(g.startX, g.x, t),
                      interpolate(g.startY, g.y, t))]

\* ------------------------------------------------------------------ Init
NoControl ==
  [trigger |-> Null, gen |-> 0, target |-> Null, mode |-> "body", promise |-> Null]
IdleTick == [active |-> FALSE, snapshot |-> <<>>, gens |-> <<>>, idx |-> 0]
NoGlide ==
  [st |-> "none", sprite |-> Null, seconds |-> 1, x |-> RatOf(0), y |-> RatOf(0),
   startTime |-> 0, startX |-> RatOf(0), startY |-> RatOf(0), t |-> RatOf(0)]

\* no warped call is in progress
NoWarp ==
  [pc |-> "idle", kind |-> "none", arg |-> 0, name |-> "", started |-> FALSE,
   n |-> 0, endTime |-> 0, promise |-> Null]

\* the variable names of the original sprite: a number and a list
InitialVars == [score |-> NumVal(0), items |-> ListVal(1)]

\* a GREEN_FLAG script, a CLONE_START script and a script for the broadcast "go"
DefaultTriggers ==
  <<NewTrigger(GREEN_FLAG, "", 1), NewTrigger(CLONE_START, "", 2),
    NewTrigger(BROADCAST, "go", 3)>>

\* one original sprite with `costumes` costumes and the scripts of `trigs`;
\* nothing running
InitOf(costumes, trigs) ==
  /\ sprites = <<[NewSprite(costumes) EXCEPT
                   !.triggers = [i \in 1..Len(trigs) |-> i]]>>
  /\ effectMaps = <<NewEffectMap>>
  /\ varObjs = <<InitialVars>>
  /\ lists = << <<>> >>
  /\ triggerObjs = trigs
  /\ tasks = [i \in 1..Len(trigs) |-> IdleTask]
  /\ runningTriggers = <<>>
  /\ promises = <<>>
  /\ tick = IdleTick
  /\ control = NoControl
  /\ deleted = {}
  /\ resumedDeleted = {}
  /\ now = 0
  /\ glideTask = NoGlide
  /\ effectChains = <<NewEffectChain>>
  /\ warp = NoWarp
  /\ waitTask = [st |-> "none", endTime |-> 0, yields |-> 0]
  /\ sayTasks = [k \in 1..MaxSayTasks |-> [st |-> "none", timer |-> Null]]
  /\ bubble = [text |-> "", style |-> "say", timeout |-> Null]
  /\ timers = <<>>
  /\ noopDelete = [sprite |-> Null, clones |-> 0, running |-> 0]
  /\ randomCall = [sprite |-> Null, from |-> 0, draw |-> 0]

\* the original sprite with the default scripts
InitWith(costumes) == InitOf(costumes, DefaultTriggers)

Init == InitWith(1)

schedVars == <<tick, control, resumedDeleted, promises>>
clockVars == <<now, glideTask>>
heapVars == <<effectMaps, varObjs, lists, triggerObjs, effectChains>>
procVars == <<warp, waitTask, sayTasks, bubble, timers, noopDelete, randomCall>>

\* ------------------------------------------- direct calls on the sprites
\* sprite.createClone()
CallCreateClone(e) ==
  /\ CreateClone(e)
  /\ UNCHANGED <<tick, control, resumedDeleted, now, glideTask, procVars>>

\* sprite.deleteThisClone()
CallDeleteThisClone(e) ==
  /\ DeleteThisClone(e)
  /\ noopDelete' = IF sprites[e].parent = Null
                   THEN [sprite |-> e, clones |-> Len(sprites[e].clones),
                         running |-> Len(SelectSeq(runningTriggers,
                                                   LAMBDA r : r.target = e))]
                   ELSE noopDelete
  /\ UNCHANGED <<heapVars, tasks, schedVars, clockVars, warp, waitTask, sayTasks,
                 bubble, timers, randomCall>>

\* sprite.effects[effectNames[k-1]] = val
SetEffect(e, k, val) ==
  /\ effectMaps' = [effectMaps EXCEPT ![sprites[e].effects] = EffectSet(@, k, val)]
  /\ UNCHANGED <<sprites, varObjs, lists, triggerObjs, effectChains, tasks, runningTriggers,
                 deleted, schedVars, clockVars, procVars>>

\* sprite.effects.clear()
ClearEffects(e) ==
  /\ effectMaps' = [effectMaps EXCEPT ![sprites[e].effects] = EffectMapClear(@)]
  /\ UNCHANGED <<sprites, varObjs, lists, triggerObjs, effectChains, tasks, runningTriggers,
                 deleted, schedVars, clockVars, procVars>>

\* sprite.vars[name] = val, with val a number
SetVar(e, name, val) ==
  /\ varObjs' = [varObjs EXCEPT ![sprites[e].vars][name] = NumVal(val)]
  /\ UNCHANGED <<sprites, effectMaps, lists, triggerObjs, effectChains, tasks,
                 runningTriggers, deleted, schedVars, clockVars, procVars>>

\* sprite.vars[name].push(item), when the variable holds a list
ListPush(e, name, item) ==
  LET v == varObjs[sprites[e].vars][name]
  IN /\ v.kind = "list"
     /\ lists' = [lists EXCEPT ![v.val] = Append(@, item)]
     /\ UNCHANGED <<sprites, effectMaps, varObjs, triggerObjs, effectChains, tasks,
                    runningTriggers, deleted, schedVars, clockVars, procVars>>

Sprites == 1..Len(sprites)
EffectIdx == 1..Len(effectNames)
VarNames == {"score", "items"}

\* effects: any sequence of effect sets, clear() and createClone()
EffectsSet == \E e \in Sprites, k \in EffectIdx, val \in EffectVals : SetEffect(e, k, val)
EffectsClear == \E e \in Sprites : ClearEffects(e)
EffectsClone == \E e \in Sprites : Len(sprites) < MaxEffectSprites /\ CallCreateClone(e)

NextEffects == EffectsSet \/ EffectsClear \/ EffectsClone

SpecEffects == Init /\ [][NextEffects]_vars

\* the driver fires a broadcast: project.fireTrigger(BROADCAST, { name }),
\* which starts the matching scripts of the original sprite and its clones
DriverBroadcast(name) ==
  LET pairs == MatchingOverClones(andClones(1), BROADCAST, name)
  IN /\ pairs # <<>>
     /\ \A i \in 1..Len(pairs) : tasks[pairs[i].trigger].gen < MaxBroadcasts
     /\ tasks' = StartTasks(tasks, pairs)
     /\ runningTriggers' = PushNew(runningTriggers, pairs)
     /\ UNCHANGED <<sprites, heapVars, promises, tick, control, deleted,
                    resumedDeleted, clockVars, procVars>>

\* lifecycle: any sequence of createClone() and deleteThisClone(), with
\* broadcasts of the driver in between
LifecycleCreate == \E e \in Sprites : Len(sprites) < MaxSprites /\ CallCreateClone(e)
LifecycleDelete == \E e \in Sprites : CallDeleteThisClone(e)
LifecycleBroadcast == \E name \in BroadcastNames : DriverBroadcast(name)

NextLifecycle == LifecycleCreate \/ LifecycleDelete \/ LifecycleBroadcast

SpecLifecycle == Init /\ [][NextLifecycle]_vars

\* variables: createClone(), assignments and in-place list changes
VarsSet == \E e \in Sprites, name \in VarNames, val \in 0..1 : SetVar(e, name, val)
VarsPush ==
  \E e \in Sprites, name \in VarNames, item \in 1..2 :
    /\ \A l \in 1..Len(lists) : Len(lists[l]) < MaxListLen
    /\ ListPush(e, name, item)
VarsClone == \E e \in Sprites : Len(sprites) < MaxVarSprites /\ CallCreateClone(e)

NextVars == VarsSet \/ VarsPush \/ VarsClone

SpecVars == Init /\ [][NextVars]_vars

\* sprite.costumeNumber = number
SetCostumeNumber(e, number) ==
  /\ sprites' = [sprites EXCEPT ![e] = WithCostumeNumber(@, number)]
  /\ UNCHANGED <<heapVars, tasks, runningTriggers, deleted, schedVars, clockVars, procVars>>

\* sprite.costume = "next costume"
SetCostumeNext(e) == SetCostumeNumber(e, sprites[e].costumeNumber + 1)

\* sprite.costume = "previous costume"
SetCostumePrevious(e) == SetCostumeNumber(e, sprites[e].costumeNumber - 1)

\* sprite.costume = "random costume", for one value of the random source
SetCostumeRandom(e, r) == SetCostumeNumber(e, RandomCostume(sprites[e], r))

\* sprite.costume = <name of costume number i>: findIndex gives i - 1
SetCostumeByName(e, i) == SetCostumeNumber(e, (i - 1) + 1)

CostumeArgs == (0 - MaxCostumeArg)..MaxCostumeArg

CostumeSet == \E e \in Sprites, n \in CostumeArgs : SetCostumeNumber(e, n)
CostumeNext == \E e \in Sprites : SetCostumeNext(e)
CostumePrevious == \E e \in Sprites : SetCostumePrevious(e)
CostumeRandom == \E e \in Sprites : \E r \in RandomDraws(sprites[e]) : SetCostumeRandom(e, r)
CostumeByName == \E e \in Sprites : \E i \in 1..sprites[e].costumes : SetCostumeByName(e, i)
CostumeClone == \E e \in Sprites : Len(sprites) < MaxCostumeSprites /\ CallCreateClone(e)

NextCostume ==
  \/ CostumeSet \/ CostumeNext \/ CostumePrevious \/ CostumeRandom
  \/ CostumeByName \/ CostumeClone

InitCostume == \E c \in 1..MaxCostumes : InitWith(c)

SpecCostume == InitCostume /\ [][NextCostume]_vars

\* sprite.costume = "random costume", with what the call found and what the
\* random source returned kept for inspection
RandomCostumeCall(e, r) ==
  /\ sprites' = [sprites EXCEPT ![e] = WithCostumeNumber(@, RandomCostume(@, r))]
  /\ randomCall' = [sprite |-> e, from |-> sprites[e].costumeNumber, draw |-> r]
  /\ UNCHANGED <<heapVars, tasks, runningTriggers, deleted, schedVars, clockVars,
                 warp, waitTask, sayTasks, bubble, timers, noopDelete>>

NextRandomCostume ==
  \/ \E e \in Sprites : \E r \in RandomDraws(sprites[e]) : RandomCostumeCall(e, r)
  \/ CostumeNext
  \/ \E e \in Sprites : Len(sprites) < MaxRandomSprites /\ CallCreateClone(e)

SpecRandomCostume == InitCostume /\ [][NextRandomCostume]_vars

\* the clock moves on between two resumptions
ClockSteps == {400, 700}

ClockAdvance(d) ==
  /\ now + d <= MaxTime
  /\ now' = now + d
  /\ UNCHANGED <<sprites, heapVars, tasks, runningTriggers, deleted, schedVars,
                 glideTask, procVars>>

\* the first resumption of sprite.glide(seconds, x, y): the statements up to
\* the first yield
GlideCall(e, seconds, x, y) ==
  LET g == [st |-> "running", sprite |-> e, seconds |-> seconds,
            x |-> RatOf(x), y |-> RatOf(y),
            startTime |-> now, startX |-> sprites[e].x, startY |-> sprites[e].y,
            t |-> RatOf(0)]
  IN /\ glideTask.st \in {"none", "done"}
     /\ glideTask' = GlideIteration(g).task
     /\ sprites' = [sprites EXCEPT ![e] = GlideIteration(g).sprite]
     /\ UNCHANGED <<heapVars, tasks, runningTriggers, deleted, schedVars, now,
                 procVars>>

\* a later resumption: the loop test, then either the end of the generator or
\* one more pass up to the yield
GlideResume ==
  /\ glideTask.st = "suspended"
  /\ IF RatLess(glideTask.t, RatOf(1))
     THEN /\ glideTask' = GlideIteration(glideTask).task
          /\ sprites' = [sprites EXCEPT ![glideTask.sprite] =
                                          GlideIteration(glideTask).sprite]
     ELSE /\ glideTask' = [glideTask EXCEPT !.st = "done"]
          /\ UNCHANGED sprites
  /\ UNCHANGED <<heapVars, tasks, runningTriggers, deleted, schedVars, now,
                 procVars>>

GlideStart ==
  \E seconds \in 1..MaxSecs, x \in 0..MaxCoord, y \in 0..MaxCoord :
    GlideCall(1, seconds, x, y)
GlideClock == \E d \in ClockSteps : ClockAdvance(d)

NextGlide == GlideStart \/ GlideResume \/ GlideClock

SpecGlide == Init /\ [][NextGlide]_vars

\* --------------------------------------------- scripts under the scheduler
\* the pairs Project.fireTrigger(kind, options) starts: the original sprite
\* and its clones
FirePairs(kind, options) == MatchingOverClones(andClones(1), kind, options)

InRunning(t) == \E i \in 1..Len(runningTriggers) : runningTriggers[i].trigger = t

\* a script instance is terminal once it has completed, was cancelled (taken
\* out of the running set) or was replaced by a restart of its trigger
Terminal(inst) ==
  \/ tasks[inst[1]].gen # inst[2]
  \/ tasks[inst[1]].st = "done"
  \/ ~InRunning(inst[1])

\* the promise returned by fireTrigger has resolved
Resolved(p) == \A inst \in promises[p].started : Terminal(inst)

\* a then-callback is waiting to run
MicrotaskPending == \E p \in 1..Len(promises) : Resolved(p) /\ ~promises[p].fired

\* the state of the instance in control, written back to its trigger's task
\* unless the trigger has been restarted meanwhile
SaveTask(tk, c, st) ==
  IF tk[c.trigger].gen = c.gen
  THEN [tk EXCEPT ![c.trigger] =
          [st |-> st, gen |-> c.gen, mode |-> c.mode, promise |-> c.promise]]
  ELSE tk

\* the driver fires the green flag once: project.fireTrigger(GREEN_FLAG)
GreenFlag ==
  /\ ~tick.active
  /\ tasks[1].gen = 0
  /\ tasks' = StartTasks(tasks, FirePairs(GREEN_FLAG, ""))
  /\ runningTriggers' = PushNew(runningTriggers, FirePairs(GREEN_FLAG, ""))
  /\ UNCHANGED <<sprites, heapVars, promises, tick, control, deleted,
                 resumedDeleted, clockVars, procVars>>

\* Project.step() begins: the tasks of the running set at this moment are the
\* ones this pass resumes
TickBegin ==
  /\ ~tick.active
  /\ ~MicrotaskPending
  /\ runningTriggers # <<>>
  /\ tick' = [active |-> TRUE, snapshot |-> runningTriggers,
              gens |-> [i \in 1..Len(runningTriggers) |->
                          tasks[runningTriggers[i].trigger].gen],
              idx |-> 0]
  /\ UNCHANGED <<sprites, heapVars, tasks, runningTriggers, promises, control,
                 deleted, resumedDeleted, clockVars, procVars>>

\* the next task of the pass is resumed, unless it was cancelled (it has left
\* the running set) or started anew during this pass
TickResume ==
  /\ tick.active
  /\ control = NoControl
  /\ tick.idx < Len(tick.snapshot)
  /\ LET r == tick.snapshot[tick.idx + 1]
         tk == tasks[r.trigger]
         live == /\ \E i \in 1..Len(runningTriggers) : runningTriggers[i] = r
                 /\ tk.gen = tick.gens[tick.idx + 1]
                 /\ tk.st \in {"pending", "suspended"}
     IN /\ tick' = [tick EXCEPT !.idx = @ + 1]
        /\ control' = IF live
                      THEN [trigger |-> r.trigger, gen |-> tk.gen, target |-> r.target,
                            mode |-> tk.mode, promise |-> tk.promise]
                      ELSE NoControl
        /\ resumedDeleted' = IF live /\ r.target \in deleted
                             THEN resumedDeleted \cup {r.trigger}
                             ELSE resumedDeleted
  /\ UNCHANGED <<sprites, heapVars, tasks, runningTriggers, promises, deleted,
                 clockVars, procVars>>

\* Project.step() ends: finished tasks leave the running set
TickEnd ==
  /\ tick.active
  /\ control = NoControl
  /\ tick.idx = Len(tick.snapshot)
  /\ runningTriggers' = SelectSeq(runningTriggers,
                                  LAMBDA r : tasks[r.trigger].st # "done")
  /\ tick' = IdleTick
  /\ UNCHANGED <<sprites, heapVars, tasks, promises, control, deleted,
                 resumedDeleted, clockVars, procVars>>

\* the callback of  this.broadcast(name).then(() => { running = false })
\* runs once the promise has resolved and no script is on the stack
ThenCallback ==
  \E p \in 1..Len(promises) :
    /\ ~tick.active
    /\ Resolved(p)
    /\ ~promises[p].fired
    /\ promises' = [promises EXCEPT ![p].fired = TRUE]
    /\ UNCHANGED <<sprites, heapVars, tasks, runningTriggers, tick, control,
                   deleted, resumedDeleted, clockVars, procVars>>

InBody == control # NoControl /\ control.mode = "body"

\* the script in control runs  this.createClone()
StmtCreateClone ==
  /\ InBody
  /\ Len(sprites) < MaxSchedSprites
  /\ CreateClone(control.target)
  /\ UNCHANGED <<tick, control, resumedDeleted, clockVars, procVars>>

\* the script in control runs  this.deleteThisClone()
StmtDeleteThisClone ==
  /\ InBody
  /\ DeleteThisClone(control.target)
  /\ UNCHANGED <<heapVars, tasks, promises, tick, control, resumedDeleted, clockVars, procVars>>

\* the script in control runs  yield* this.broadcastAndWait(name)  up to the
\* loop: running = true, the broadcast is fired, the callback is registered
StmtBroadcastAndWait ==
  \E name \in BroadcastNames :
    LET pairs == FirePairs(BROADCAST, name)
    IN /\ InBody
       /\ Len(promises) < MaxBroadcasts
       /\ promises' = Append(promises,
                             [started |-> StartedSet(tasks, pairs), fired |-> FALSE])
       /\ tasks' = StartTasks(tasks, pairs)
       /\ runningTriggers' = PushNew(runningTriggers, pairs)
       /\ control' = [control EXCEPT !.mode = "wait", !.promise = Len(promises) + 1]
       /\ UNCHANGED <<sprites, heapVars, tick, deleted, resumedDeleted, clockVars, procVars>>

\* a loop test that never waits
BwRunningNever(p) == FALSE

\* the value of `running` in broadcastAndWait: true until the callback ran
BwRunning(p) == ~promises[p].fired

\* while (running) { yield; }  in broadcastAndWait, one test of the loop
BroadcastAndWaitLoop ==
  /\ control # NoControl
  /\ control.mode = "wait"
  /\ IF BwRunning(control.promise)
     THEN /\ tasks' = SaveTask(tasks, control, "suspended")
          /\ control' = NoControl
     ELSE /\ control' = [control EXCEPT !.mode = "body", !.promise = Null]
          /\ UNCHANGED tasks
  /\ UNCHANGED <<sprites, heapVars, runningTriggers, promises, tick, deleted,
                 resumedDeleted, clockVars, procVars>>

\* the script in control reaches a yield of its own
StmtYield ==
  /\ InBody
  /\ tasks' = SaveTask(tasks, control, "suspended")
  /\ control' = NoControl
  /\ UNCHANGED <<sprites, heapVars, runningTriggers, promises, tick, deleted,
                 resumedDeleted, clockVars, procVars>>

\* the script in control returns
StmtReturn ==
  /\ InBody
  /\ tasks' = SaveTask(tasks, control, "done")
  /\ control' = NoControl
  /\ UNCHANGED <<sprites, heapVars, runningTriggers, promises, tick, deleted,
                 resumedDeleted, clockVars, procVars>>

NextSched ==
  \/ GreenFlag \/ TickBegin \/ TickResume \/ TickEnd \/ ThenCallback
  \/ StmtCreateClone \/ StmtDeleteThisClone \/ StmtBroadcastAndWait
  \/ BroadcastAndWaitLoop \/ StmtYield \/ StmtReturn

SpecSched == Init /\ [][NextSched]_vars

\* ------------------------------------------------------------------ wait
\* the sprites, the heaps and the scheduler: what a timed procedure leaves alone
worldVars == <<sprites, heapVars, tasks, runningTriggers, deleted, schedVars>>

\* a loop test that lets the wait end only after its deadline
WaitOverLate(endTime) == now > endTime

\* the test of  while (new Date() < endTime)  fails
WaitOver(endTime) == ~(now < endTime)

\* the generator of wait(secs) runs from its loop test to its yield or its end
WaitLoop(w) ==
  IF WaitOver(w.endTime) THEN [w EXCEPT !.st = "done"]
  ELSE [w EXCEPT !.st = "suspended",
                 !.yields = IF @ < MaxWaitYields THEN @ + 1 ELSE @]

\* the first resumption of this.wait(secs): endTime is set, then the loop
WaitCall(secs) ==
  /\ waitTask.st \in {"none", "done"}
  /\ waitTask' = WaitLoop([st |-> "running", endTime |-> now + secs * MsPerSecond,
                           yields |-> 0])
  /\ UNCHANGED <<worldVars, clockVars, warp, sayTasks, bubble, timers, noopDelete, randomCall>>

\* a later resumption of the wait: the loop test again
WaitResume ==
  /\ waitTask.st = "suspended"
  /\ waitTask' = WaitLoop(waitTask)
  /\ UNCHANGED <<worldVars, clockVars, warp, sayTasks, bubble, timers, noopDelete, randomCall>>

NextWait ==
  \/ \E secs \in 0..MaxSecs : WaitCall(secs)
  \/ WaitResume
  \/ \E d \in ClockSteps : ClockAdvance(d)

SpecWait == Init /\ [][NextWait]_vars

\* -------------------------------------------------------------- direction
\* a % b of JavaScript: the remainder has the sign of the dividend
JsRem(a, b) == IF a >= 0 THEN a % b ELSE 0 - ((0 - a) % b)

\* SpriteBase.normalizeDeg(deg)
normalizeDeg(deg) == JsRem(JsRem(deg + 180, 360) + 360, 360) - 180

\* sprite.direction = dir
SetDirection(e, dir) ==
  /\ sprites' = [sprites EXCEPT ![e].direction = normalizeDeg(dir)]
  /\ UNCHANGED <<heapVars, tasks, runningTriggers, deleted, schedVars, clockVars,
                 procVars>>

\* scripts assign multiples of 30 degrees, up to MaxTurns of them either way
NextDirection ==
  \/ \E e \in Sprites, k \in (0 - MaxTurns)..MaxTurns : SetDirection(e, 30 * k)
  \/ \E e \in Sprites : Len(sprites) < MaxDirSprites /\ CallCreateClone(e)

SpecDirection == Init /\ [][NextDirection]_vars

\* ------------------------------------------------- the state a clone copies
\* the fields scripts assign directly, and the values they assign
FieldValues ==
  [size |-> {100, 50}, visible |-> BOOLEAN,
   rotationStyle |-> {"ALL_AROUND", "LEFT_RIGHT"}, penSize |-> {1, 3},
   penDown |-> BOOLEAN, penColor |-> {"rgb(0,0,255)", "rgb(255,0,0)"}]

\* the fields createClone() is to copy from the origin
StateFields ==
  {"x", "y", "direction", "costumeNumber"} \cup DOMAIN FieldValues

\* how many of these fields differ from a new sprite's, over all sprites
FieldChanges ==
  Cardinality({p \in Sprites \X StateFields :
                 sprites[p[1]][p[2]] # NewSprite(1)[p[2]]})

\* sprite.size = v, sprite.visible = v, sprite.rotationStyle = v,
\* sprite.penSize = v, sprite.penDown = v, sprite.penColor = v
SetField(e, f, v) ==
  /\ sprites' = [sprites EXCEPT ![e][f] = v]
  /\ UNCHANGED <<heapVars, tasks, runningTriggers, deleted, schedVars, clockVars,
                 procVars>>

\* sprite.goto(x, y)
SetPosition(e, x, y) ==
  /\ sprites' = [sprites EXCEPT ![e] = Goto(@, RatOf(x), RatOf(y))]
  /\ UNCHANGED <<heapVars, tasks, runningTriggers, deleted, schedVars, clockVars,
                 procVars>>

NextCloneState ==
  \/ \E e \in Sprites, f \in DOMAIN FieldValues : \E v \in FieldValues[f] :
       FieldChanges < MaxFieldChanges /\ SetField(e, f, v)
  \/ \E e \in Sprites, x \in 0..MaxCoord, y \in 0..MaxCoord :
       FieldChanges < MaxFieldChanges /\ SetPosition(e, x, y)
  \/ \E e \in Sprites, d \in {90, 0 - 90} :
       FieldChanges < MaxFieldChanges /\ SetDirection(e, d)
  \/ \E e \in Sprites, n \in 1..2 :
       FieldChanges < MaxFieldChanges /\ SetCostumeNumber(e, n)
  \/ \E e \in Sprites : Len(sprites) < MaxStateSprites /\ CallCreateClone(e)

SpecCloneState == InitWith(2) /\ [][NextCloneState]_vars

\* ----------------------------------------------------------- audio routing
\* sprite.audioEffects.pitch = v: the value goes to the sprite's effect chain
SetAudioEffect(e, v) ==
  /\ effectChains' = [effectChains EXCEPT ![sprites[e].effectChain].pitch = v]
  /\ UNCHANGED <<sprites, effectMaps, varObjs, lists, triggerObjs, tasks,
                 runningTriggers, deleted, schedVars, clockVars, procVars>>

NextAudio ==
  \/ \E e \in Sprites, v \in {0, 10, 0 - 10} : SetAudioEffect(e, v)
  \/ \E e \in Sprites : Len(sprites) < MaxAudioSprites /\ CallCreateClone(e)

SpecAudio == Init /\ [][NextAudio]_vars

\* ------------------------------------------------- scripts of a new clone
NextCloneStart ==
  \/ GreenFlag \/ TickBegin \/ TickResume \/ TickEnd
  \/ StmtCreateClone \/ StmtYield \/ StmtReturn

\* the default scripts and a second CLONE_START script after the others
SpecCloneStart ==
  /\ InitOf(1, Append(DefaultTriggers, NewTrigger(CLONE_START, "", 4)))
  /\ [][NextCloneStart]_vars

\* ------------------------------------------------- say, think and timers
\* clearTimeout(id): a timer that has not fired yet never will
ClearTimeout(ts, id) ==
  IF id = Null THEN ts ELSE [ts EXCEPT ![id].cleared = TRUE]

\* no generator is on the stack: callbacks and other scripts may run
SayIdle == \A k \in DOMAIN sayTasks : sayTasks[k].st # "running"

\* sprite.say(text) and sprite.think(text)
Say(style) ==
  /\ SayIdle
  /\ timers' = ClearTimeout(timers, bubble.timeout)
  /\ bubble' = [text |-> "hi", style |-> style, timeout |-> Null]
  /\ UNCHANGED <<worldVars, clockVars, warp, waitTask, sayTasks, noopDelete, randomCall>>

\* the first resumption of script k's sprite.sayAndWait(text, secs) or
\* thinkAndWait(text, secs), up to its first yield: the callback cannot have
\* run yet, so the loop yields
SayAndWaitCall(k, style, secs) ==
  /\ SayIdle
  /\ sayTasks[k].st = "none"
  /\ timers' = Append(ClearTimeout(timers, bubble.timeout),
                      [deadline |-> now + secs * MsPerSecond,
                       cleared |-> FALSE, fired |-> FALSE])
  /\ bubble' = [text |-> "hi", style |-> style, timeout |-> Len(timers) + 1]
  /\ sayTasks' = [sayTasks EXCEPT ![k] = [st |-> "suspended",
                                          timer |-> Len(timers) + 1]]
  /\ UNCHANGED <<worldVars, clockVars, warp, waitTask, noopDelete, randomCall>>

\* the scheduler resumes script k at the yield of sayAndWait's loop
SayAndWaitResume(k) ==
  /\ SayIdle
  /\ sayTasks[k].st = "suspended"
  /\ sayTasks' = [sayTasks EXCEPT ![k].st = "running"]
  /\ UNCHANGED <<worldVars, clockVars, warp, waitTask, bubble, timers, noopDelete, randomCall>>

\* while (!done) yield: done is set by the callback of the script's own timer
SayAndWaitTest(k) ==
  /\ sayTasks[k].st = "running"
  /\ sayTasks' = [sayTasks EXCEPT ![k].st =
                    IF timers[sayTasks[k].timer].fired THEN "done" ELSE "suspended"]
  /\ UNCHANGED <<worldVars, clockVars, warp, waitTask, bubble, timers, noopDelete, randomCall>>

\* the callback sayAndWait gave to setTimeout runs: the timer is due, was not
\* cleared, and no script is on the stack
TimerFire(id) ==
  /\ SayIdle
  /\ control = NoControl
  /\ ~tick.active
  /\ id \in 1..Len(timers)
  /\ ~timers[id].cleared
  /\ ~timers[id].fired
  /\ now >= timers[id].deadline
  /\ timers' = [timers EXCEPT ![id].fired = TRUE]
  /\ bubble' = [bubble EXCEPT !.text = ""]
  /\ UNCHANGED <<worldVars, clockVars, warp, waitTask, sayTasks, noopDelete, randomCall>>

NextSay ==
  \/ \E style \in {"say", "think"} : Say(style)
  \/ \E k \in 1..MaxSayTasks, style \in {"say", "think"}, secs \in 1..MaxSecs :
       SayAndWaitCall(k, style, secs)
  \/ \E k \in 1..MaxSayTasks : SayAndWaitResume(k)
  \/ \E k \in 1..MaxSayTasks : SayAndWaitTest(k)
  \/ \E id \in 1..MaxSayTasks : TimerFire(id)
  \/ \E d \in ClockSteps : ClockAdvance(d)

SpecSay == Init /\ [][NextSay]_vars

\* the scheduler resumes every suspended script in each pass, a resumed script
\* runs on, and the event loop runs a due timer's callback between passes
SpecSayLive ==
  /\ SpecSay
  /\ \A k \in 1..MaxSayTasks :
       /\ SF_vars(SayAndWaitResume(k))
       /\ WF_vars(SayAndWaitTest(k))
       /\ SF_vars(TimerFire(k))

\* ------------------------------------------------------------------ warp
\* the script in control calls  this.warp(this.procedure)(...): the wrapper
\* makes the generator  inst = bound(...args)  and enters its loop.  The
\* procedure is one of
\*   "yields":            for (i = 0; i < arg; i++) yield;
\*   "wait":              yield* this.wait(arg);
\*   "broadcastAndWait":  yield* this.broadcastAndWait(name);
WarpCall(kind, arg, name) ==
  /\ InBody
  /\ warp.pc = "idle"
  /\ kind = "wait" =>
       \A d \in ClockSteps : now + arg * MsPerSecond + d <= MaxTime
  /\ kind = "broadcastAndWait" => Len(promises) < MaxBroadcasts
  /\ warp' = [NoWarp EXCEPT !.pc = "loop", !.kind = kind, !.arg = arg,
                            !.name = name]
  /\ control' = [control EXCEPT !.mode = "warp"]
  /\ UNCHANGED <<sprites, heapVars, tasks, runningTriggers, promises, tick,
                 deleted, resumedDeleted, clockVars, waitTask, sayTasks, bubble,
                 timers, noopDelete, randomCall>>

\* inst.next()  in warp's loop: the procedure runs up to its next yield or to
\* its end
WarpNext ==
  /\ control # NoControl
  /\ control.mode = "warp"
  /\ warp.pc = "loop"
  /\ CASE warp.kind = "yields" ->
            /\ warp' = IF warp.n < warp.arg
                       THEN [warp EXCEPT !.pc = "yielded", !.n = @ + 1,
                                         !.started = TRUE]
                       ELSE [warp EXCEPT !.pc = "done", !.started = TRUE]
            /\ UNCHANGED <<tasks, runningTriggers, promises>>
       [] warp.kind = "wait" ->
            LET endTime == IF warp.started THEN warp.endTime
                           ELSE now + warp.arg * MsPerSecond
            IN /\ warp' = [warp EXCEPT !.started = TRUE, !.endTime = endTime,
                             !.pc = IF WaitOver(endTime) THEN "done" ELSE "yielded"]
               /\ UNCHANGED <<tasks, runningTriggers, promises>>
       [] warp.kind = "broadcastAndWait" /\ ~warp.started ->
            LET pairs == FirePairs(BROADCAST, warp.name)
            IN /\ promises' = Append(promises, [started |-> StartedSet(tasks, pairs),
                                                fired |-> FALSE])
               /\ tasks' = StartTasks(tasks, pairs)
               /\ runningTriggers' = PushNew(runningTriggers, pairs)
               /\ warp' = [warp EXCEPT !.started = TRUE, !.pc = "yielded",
                                       !.promise = Len(promises) + 1]
       [] warp.kind = "broadcastAndWait" /\ warp.started ->
            /\ warp' = [warp EXCEPT !.pc = IF BwRunning(warp.promise)
                                           THEN "yielded" ELSE "done"]
            /\ UNCHANGED <<tasks, runningTriggers, promises>>
  /\ UNCHANGED <<sprites, heapVars, tick, control, deleted, resumedDeleted,
                 clockVars, waitTask, sayTasks, bubble, timers, noopDelete, randomCall>>

\* a wrapper that is a generator itself and hands each yield on to its caller
WarpLoopYieldsOn(pc) == pc = "yielded"

\* the body of warp's loop is empty and the wrapper is a plain function: no
\* yield of the procedure is handed on
WarpLoopYields(pc) == FALSE

\* while (!inst.next().done);  the test of the loop after a call of next()
WarpLoopTest ==
  /\ control # NoControl
  /\ control.mode = "warp"
  /\ warp.pc \in {"yielded", "done"}
  /\ IF warp.pc = "done"
     THEN /\ warp' = NoWarp
          /\ control' = [control EXCEPT !.mode = "body"]
          /\ UNCHANGED tasks
     ELSE /\ warp' = [warp EXCEPT !.pc = "loop"]
          /\ IF WarpLoopYields(warp.pc)
             THEN /\ tasks' = SaveTask(tasks, control, "suspended")
                  /\ control' = NoControl
             ELSE UNCHANGED <<tasks, control>>
  /\ UNCHANGED <<sprites, heapVars, runningTriggers, promises, tick, deleted,
                 resumedDeleted, clockVars, waitTask, sayTasks, bubble, timers,
                 noopDelete, randomCall>>

\* scripts under the scheduler that call warped procedures, beside scripts
\* that yield, return or wait for a broadcast themselves
NextWarp ==
  \/ GreenFlag \/ TickBegin \/ TickResume \/ TickEnd \/ ThenCallback
  \/ \E name \in BroadcastNames : ~tick.active /\ DriverBroadcast(name)
  \/ StmtBroadcastAndWait \/ BroadcastAndWaitLoop \/ StmtYield \/ StmtReturn
  \/ \E n \in 0..MaxWarpYields : WarpCall("yields", n, "")
  \/ \E secs \in 0..MaxSecs : WarpCall("wait", secs, "")
  \/ \E name \in BroadcastNames : WarpCall("broadcastAndWait", 0, name)
  \/ WarpNext
  \/ WarpLoopTest
  \/ \E d \in ClockSteps : ClockAdvance(d)

SpecWarp == Init /\ [][NextWarp]_vars

\* the JavaScript thread runs on while a call is on the stack, and the wall
\* clock advances
SpecWarpLive ==
  /\ SpecWarp
  /\ WF_vars(WarpNext)
  /\ WF_vars(WarpLoopTest)
  /\ WF_vars(\E d \in ClockSteps : ClockAdvance(d))

\* ------------------------------------------------------------ properties
Range(s) == {s[i] : i \in 1..Len(s)}
NoDuplicates(s) == \A i, j \in 1..Len(s) : s[i] = s[j] => i = j

\* C1: in every _EffectMap, bit i of _bitmask is 1 exactly when the stored
\* value of the i-th registered effect is non-zero.
C1_BitmaskMatchesValues ==
  \A m \in 1..Len(effectMaps) : \A k \in EffectIdx :
    (Bit(effectMaps[m].bitmask, k - 1) = 1) <=> (effectMaps[m].effectValues[k] # 0)

\* a clone whose first effect was set back to 0 while its second is non-zero
C1_Witness ==
  \E e \in Sprites :
    /\ sprites[e].parent # Null
    /\ effectMaps[sprites[e].effects].effectValues = <<0, 25>>
    /\ effectMaps[sprites[e].effects].bitmask = 2
    /\ effectMaps[sprites[sprites[e].parent].effects].bitmask = 3

\* the effect values and bitmask a sprite sees through this.effects
EffectsOf(e) == effectMaps[sprites[e].effects]

\* C8: a new clone starts with its origin's effect values and bitmask, and an
\* effect set or clear() on one sprite leaves every other sprite's effect
\* values and bitmask as they were.
C8_CloneEffectsIndependent ==
  [][/\ \A e \in Sprites :
          CallCreateClone(e) =>
            /\ effectMaps'[sprites'[Len(sprites')].effects] = EffectsOf(e)
            /\ \A o \in Sprites : effectMaps'[sprites'[o].effects] = EffectsOf(o)
     /\ \A e \in Sprites :
          (ClearEffects(e) \/ \E k \in EffectIdx, val \in EffectVals : SetEffect(e, k, val))
            => \A o \in Sprites \ {e} :
                 effectMaps'[sprites'[o].effects] = EffectsOf(o)]_vars

\* a clone and its origin with different effect values and bitmasks
C8_Witness ==
  \E e \in Sprites :
    /\ sprites[e].parent # Null
    /\ EffectsOf(e).bitmask = 1
    /\ EffectsOf(sprites[e].parent).bitmask = 2

\* what a sprite's scripts read from this.vars: each variable's number, or the
\* contents of its list
VarsOf(e) ==
  [name \in VarNames |->
     LET v == varObjs[sprites[e].vars][name]
     IN IF v.kind = "list" THEN [kind |-> "list", val |-> lists[v.val]] ELSE
        [kind |-> "num", val |-> <<v.val>>]]

\* C9: assigning a variable of one sprite, or changing a list-valued variable
\* of it in place, leaves the variables of every other sprite unchanged.
C9_CloneVarsIndependent ==
  [][\A e \in Sprites :
       (\/ \E name \in VarNames, val \in 0..1 : SetVar(e, name, val)
        \/ \E name \in VarNames, item \in 1..2 : ListPush(e, name, item))
       => \A o \in Sprites \ {e} :
            [name \in VarNames |->
               LET v == varObjs'[sprites'[o].vars][name]
               IN IF v.kind = "list" THEN [kind |-> "list", val |-> lists'[v.val]]
                  ELSE [kind |-> "num", val |-> <<v.val>>]] = VarsOf(o)]_vars

\* C10: every clone has one parent, is in its parent's clones list exactly
\* while it is alive, and appears at most once in all the clones lists.
C10_CloneOwnership ==
  /\ \A c \in Sprites \ {1} :
       /\ sprites[c].parent \in Sprites \ {c}
       /\ (c \in Range(sprites[sprites[c].parent].clones)) <=> (c \notin deleted)
       /\ \A p \in Sprites : c \in Range(sprites[p].clones) => p = sprites[c].parent
  /\ \A p \in Sprites : NoDuplicates(sprites[p].clones)
  /\ sprites[1].parent = Null

\* a deleted clone that still has a living clone of its own, beside a living
\* sibling
C10_Witness ==
  \E c, d, s \in Sprites :
    /\ c \in deleted /\ d \notin deleted /\ s \notin deleted /\ s # c
    /\ sprites[d].parent = c
    /\ sprites[s].parent = sprites[c].parent
    /\ sprites[s].parent # Null

\* C6 (as claimed): a glide that has finished has left the sprite exactly on
\* its target (x, y).
C6_GlideEndsOnTarget ==
  glideTask.st = "done" =>
    /\ sprites[glideTask.sprite].x = glideTask.x
    /\ sprites[glideTask.sprite].y = glideTask.y

\* C7: a costume number set to n lies in [1, c] and is congruent to n modulo
\* c; n, n + c and n - c give the same costume; next at c gives 1, previous at
\* 1 gives c; the costume number stays in [1, c].
C7_CostumeWraps ==
  /\ [](\A e \in Sprites :
          /\ sprites[e].costumeNumber \in 1..sprites[e].costumes
          /\ \A n \in CostumeArgs :
               LET c == sprites[e].costumes
                   r == WithCostumeNumber(sprites[e], n).costumeNumber
               IN /\ r = WithCostumeNumber(sprites[e], n + c).costumeNumber
                  /\ r = WithCostumeNumber(sprites[e], n - c).costumeNumber)
  /\ [][\A e \in Sprites :
          LET c == sprites[e].costumes
              after == sprites'[e].costumeNumber
          IN /\ \A n \in CostumeArgs :
                  SetCostumeNumber(e, n) => after \in 1..c /\ (after - n) % c = 0
             /\ (SetCostumeNext(e) /\ sprites[e].costumeNumber = c) => after = 1
             /\ (SetCostumePrevious(e) /\ sprites[e].costumeNumber = 1) => after = c]_vars

\* a sprite with 3 costumes whose costume number is 2 while its clone's is 3
C7_Witness ==
  \E e \in Sprites :
    /\ sprites[e].parent # Null
    /\ sprites[e].costumes = 3
    /\ sprites[e].costumeNumber = 3
    /\ sprites[sprites[e].parent].costumeNumber = 2

\* the triggers of the clones on which deleteThisClone() has acted
TriggersOfDeleted == UNION {Range(sprites[e].triggers) : e \in deleted}

\* C2: once deleteThisClone() has acted on a clone, no task whose target is
\* that clone is in the running set and none is resumed, also not one that
\* was suspended at a checkpoint.
C2_DeletedCloneNeverResumed ==
  /\ resumedDeleted = {}
  /\ \A i \in 1..Len(runningTriggers) : runningTriggers[i].target \notin deleted

\* after a later pass of the scheduler: a deleted clone with two scripts that
\* were started and not finished, one of them suspended inside broadcastAndWait
C2_Witness ==
  /\ ~tick.active
  /\ runningTriggers # <<>>
  /\ \E e \in deleted : \E t, u \in Range(sprites[e].triggers) :
       /\ t # u
       /\ tasks[t].st = "suspended" /\ tasks[t].mode = "wait"
       /\ tasks[u].st \in {"pending", "suspended"}

\* `after` is `before` without the elements of the set gone: the same
\* elements otherwise, as many, in the same order
KeptInOrder(before, after, gone) ==
  /\ Range(after) = Range(before) \ gone
  /\ Len(after) = Cardinality({i \in 1..Len(before) : before[i] \notin gone})
  /\ \A i, j \in 1..Len(after) :
       i < j => \E a, b \in 1..Len(before) :
                  a < b /\ before[a] = after[i] /\ before[b] = after[j]

\* C3: deleteThisClone() on a clone removes that clone, and nothing else, from
\* parent.clones, and the tasks targeting it, and no others, from the running
\* set; what is kept keeps its order, and no other clones list changes.
C3_DeleteRemovesExactlyItself ==
  [][\A e \in Sprites :
       (/\ sprites[e].parent # Null
        /\ CallDeleteThisClone(e) \/ (StmtDeleteThisClone /\ control.target = e)) =>
         LET p == sprites[e].parent
         IN /\ KeptInOrder(sprites[p].clones, sprites'[p].clones, {e})
            /\ KeptInOrder(runningTriggers, runningTriggers',
                           {r \in Range(runningTriggers) : r.target = e})
            /\ \A o \in Sprites \ {p} : sprites'[o].clones = sprites[o].clones]_vars

\* a deleted clone whose parent still lists a sibling created before it and one
\* created after it, the earlier one still with two tasks in the running set
C3_Witness ==
  \E e \in deleted :
    \E a, b \in Range(sprites[sprites[e].parent].clones) :
      /\ a < e /\ e < b
      /\ Cardinality({i \in 1..Len(runningTriggers) :
                        runningTriggers[i].target = a}) = 2

\* C4: broadcastAndWait returns only when every task its broadcast started is
\* terminal; until then each test of its loop suspends, and once the promise's
\* callback has run the next resumption leaves the loop.
C4_BroadcastAndWaitWaits ==
  [][(control # NoControl /\ control.mode = "wait") =>
       LET returned == control'.trigger = control.trigger /\ control'.mode = "body"
           suspended == /\ control' = NoControl
                        /\ tasks'[control.trigger].gen = control.gen =>
                             /\ tasks'[control.trigger].st = "suspended"
                             /\ tasks'[control.trigger].mode = "wait"
       IN /\ returned => Resolved(control.promise)
          /\ ~Resolved(control.promise) => suspended
          /\ promises[control.promise].fired => returned
          /\ returned \/ suspended]_vars

\* a waiting script is resumed after the tasks its broadcast started have all
\* ended and the callback has run
C4_Witness ==
  /\ control # NoControl
  /\ control.mode = "wait"
  /\ promises[control.promise].started # {}
  /\ promises[control.promise].fired
  /\ \E inst \in promises[control.promise].started : tasks[inst[1]].st = "done"

\* C5 (as claimed): when the broadcast started no task, broadcastAndWait
\* leaves its loop at the first test, in the resumption that fired it.
C5_NoMatchCompletesAtOnce ==
  [][(/\ control # NoControl
      /\ control.mode = "wait"
      /\ promises[control.promise].started = {})
       => control'.trigger = control.trigger /\ control'.mode = "body"]_vars

\* C14: a wait(secs) has its deadline at its start time + secs; a resumption
\* before the deadline suspends again, the first one at or after the deadline
\* completes the wait, and a wait of 0 seconds completes without suspending.
C14_WaitCompletesAtDeadline ==
  [][/\ \A secs \in 0..MaxSecs :
          WaitCall(secs) =>
            /\ waitTask'.endTime = now + secs * MsPerSecond
            /\ secs = 0 => waitTask'.st = "done" /\ waitTask'.yields = 0
     /\ (WaitResume \/ \E secs \in 0..MaxSecs : WaitCall(secs)) =>
          /\ now < waitTask'.endTime => waitTask'.st = "suspended"
          /\ now >= waitTask'.endTime => waitTask'.st = "done"]_vars

\* a wait that suspended at two resumptions and then completed
C14_Witness ==
  /\ waitTask.st = "done"
  /\ waitTask.yields = 2
  /\ now >= waitTask.endTime

\* C15 (as claimed): every stored direction that an assignment produced lies
\* in (-180, 180]; an assignment of 180 or -180 stores 180.
C15_DirectionNormalized ==
  \A e \in Sprites : sprites[e].direction > 0 - 180 /\ sprites[e].direction <= 180

\* C16: setting an effect to 0 clears its bit, setting it to a non-zero value
\* sets its bit; every other bit (the bitmask without that bit) and every
\* other effect's value stay as they were.
C16_SetTouchesOneBit ==
  [][\A e \in Sprites, k \in EffectIdx, val \in EffectVals :
       SetEffect(e, k, val) =>
         LET before == EffectsOf(e)
             after == effectMaps'[sprites'[e].effects]
             bit == IF val = 0 THEN 0 ELSE 1
         IN /\ Bit(after.bitmask, k - 1) = bit
            /\ after.bitmask - bit * Pow2(k - 1) =
                 before.bitmask - Bit(before.bitmask, k - 1) * Pow2(k - 1)
            /\ after.effectValues[k] = val
            /\ \A j \in EffectIdx \ {k} :
                 after.effectValues[j] = before.effectValues[j]]_vars

\* the original sprite with its second effect at 0 and its first not, beside a
\* clone that has both bits set
C16_Witness ==
  /\ EffectsOf(1).effectValues = <<0 - 10, 0>>
  /\ EffectsOf(1).bitmask = 1
  /\ \E c \in Sprites : sprites[c].parent = 1 /\ EffectsOf(c).bitmask = 3

\* C17: the clone createClone() makes has the origin's x, y, direction,
\* rotation style, size, visibility, costume number and pen state of the
\* moment of the call, no clones, and the origin as its parent.
C17_CloneCopiesState ==
  [][\A e \in Sprites :
       CallCreateClone(e) =>
         LET clone == sprites'[Len(sprites')]
         IN /\ Len(sprites') = Len(sprites) + 1
            /\ \A f \in StateFields : clone[f] = sprites[e][f]
            /\ clone.clones = <<>>
            /\ clone.parent = e]_vars

\* a clone and its origin that both have the same two fields changed: the
\* changes of the clone are the ones it was made with
C17_Witness ==
  \E c \in Sprites :
    /\ sprites[c].parent # Null
    /\ \A e \in {c, sprites[c].parent} :
         /\ sprites[e].direction = 0 - 90
         /\ sprites[e].penDown

\* C18: deleteThisClone() on a sprite without a parent changes no clones
\* list, and neither the running set nor any task, the sprite's own included.
C18_DeleteOriginalIsNoop ==
  [][\A e \in Sprites :
       (sprites[e].parent = Null /\ CallDeleteThisClone(e)) =>
         /\ sprites' = sprites
         /\ runningTriggers' = runningTriggers
         /\ tasks' = tasks
         /\ deleted' = deleted]_vars

\* deleteThisClone() has returned at once on the original sprite while it had
\* two clones and a task of its own in the running set
C18_Witness ==
  /\ noopDelete.sprite = 1
  /\ noopDelete.clones = 2
  /\ noopDelete.running = 1

\* C19: the effect chain of a new clone is a new object, cloned from the chain
\* of the top-most ancestor of the sprite createClone() was called on, at any
\* depth; no sprite's own chain is replaced or changed by the call.
C19_ChainClonedFromRoot ==
  [][\A e \in Sprites :
       CallCreateClone(e) =>
         LET chain == sprites'[Len(sprites')].effectChain
         IN /\ chain \notin DOMAIN effectChains
            /\ chain \in DOMAIN effectChains'
            /\ \E a \in Sprites :
                 /\ sprites[a].parent = Null
                 /\ e \in Range(andClones(a))
                 /\ effectChains'[chain].clonedFrom = sprites[a].effectChain
                 /\ effectChains'[chain].pitch =
                      effectChains[sprites[a].effectChain].pitch
            /\ \A o \in Sprites :
                 /\ sprites'[o].effectChain = sprites[o].effectChain
                 /\ effectChains'[sprites[o].effectChain] =
                      effectChains[sprites[o].effectChain]]_vars

\* a clone of a clone of a clone whose chain was cloned from the original
\* sprite's, while the chains of the clones above it hold other values
C19_Witness ==
  \E c \in Sprites :
    LET p == sprites[c].parent
        g == sprites[p].parent
    IN /\ p # Null /\ g # Null /\ sprites[g].parent = 1
       /\ effectChains[sprites[c].effectChain].clonedFrom = sprites[1].effectChain
       /\ effectChains[sprites[c].effectChain].pitch = 10
       /\ effectChains[sprites[1].effectChain].pitch = 10
       /\ effectChains[sprites[p].effectChain].pitch = 0 - 10
       /\ effectChains[sprites[g].effectChain].pitch = 0

\* C20: createClone() appends to the running set, in the order of the clone's
\* triggers, one task per CLONE_START trigger of the clone with the clone as
\* target, and none for its other triggers; the started scripts have not run a
\* statement when the call returns, and the caller keeps control.
C20_CloneStartScheduled ==
  [][StmtCreateClone =>
       LET c == Len(sprites) + 1
           trs == sprites'[c].triggers
           match == SelectSeq(trs, LAMBDA t : triggerObjs'[t].trigger = CLONE_START)
           n == Len(runningTriggers)
       IN /\ Len(sprites') = c
          /\ Len(runningTriggers') = n + Len(match)
          /\ \A i \in 1..n : runningTriggers'[i] = runningTriggers[i]
          /\ \A i \in 1..Len(match) :
               runningTriggers'[n + i] = [trigger |-> match[i], target |-> c]
          /\ \A i \in 1..Len(trs) :
               tasks'[trs[i]] =
                 IF triggerObjs'[trs[i]].trigger = CLONE_START
                 THEN [st |-> "pending", gen |-> 1, mode |-> "body", promise |-> Null]
                 ELSE IdleTask
          /\ \A t \in DOMAIN tasks : tasks'[t] = tasks[t]
          /\ control' = control
          /\ tick' = tick]_vars

\* the two CLONE_START scripts of a new clone wait in the running set behind
\* the script that made the clone, which still holds control
C20_Witness ==
  /\ control # NoControl
  /\ Len(sprites) = 2
  /\ Len(runningTriggers) = 3
  /\ runningTriggers[1].target = 1
  /\ runningTriggers[2] = [trigger |-> sprites[2].triggers[2], target |-> 2]
  /\ runningTriggers[3] = [trigger |-> sprites[2].triggers[4], target |-> 2]
  /\ tasks[sprites[2].triggers[2]].st = "pending"
  /\ tasks[sprites[2].triggers[3]].st = "idle"

\* C13 (as claimed): a script waiting in sayAndWait or thinkAndWait whose
\* deadline has passed eventually completes, whatever other scripts call say,
\* think, sayAndWait or thinkAndWait on the sprite meanwhile.
C13_SayAndWaitCompletes ==
  \A k \in 1..MaxSayTasks :
    (/\ sayTasks[k].st \in {"suspended", "running"}
     /\ now >= timers[sayTasks[k].timer].deadline)
      ~> (sayTasks[k].st = "done")

\* the warped procedure is one that completes when it is resumed once per
\* tick: for broadcastAndWait, every script its broadcast started has ended
WarpedCompletesPerTick ==
  warp.kind = "broadcastAndWait" => warp.started /\ Resolved(warp.promise)

\* C11 (as claimed): a warped call of a procedure that completes when resumed
\* once per tick returns.
C11_WarpTerminates ==
  (warp.pc # "idle" /\ WarpedCompletesPerTick) ~> (warp.pc = "idle")

\* C12: from the call of a warped procedure to its return the calling script
\* keeps control, the scheduler's pass does not move on, and no script is
\* resumed or changed; a broadcast of the procedure only starts scripts.
C12_NoSuspensionEscapesWarp ==
  [][warp.pc # "idle" =>
       /\ control' # NoControl
       /\ control'.trigger = control.trigger
       /\ control'.target = control.target
       /\ tick' = tick
       /\ sprites' = sprites
       /\ \A t \in DOMAIN tasks :
            \/ tasks'[t] = tasks[t]
            \/ tasks'[t] = StartTask(tasks[t])]_vars

\* two checkpoints of a warped procedure have been swallowed while another
\* script still waits for its turn in the same pass
C12_Witness ==
  /\ warp.pc = "loop"
  /\ warp.kind = "yields"
  /\ warp.n = 2
  /\ tick.active
  /\ tick.idx < Len(tick.snapshot)

\* C21 (as claimed): every clone on which deleteThisClone() has not acted is
\* in andClones() of its top-most ancestor, the clones of a deleted clone
\* included.
C21_LiveClonesReachable ==
  \A c \in Sprites \ deleted : c \in Range(andClones(Original(c)))

\* C22: with c >= 2 costumes and the current number in [1, c], "random
\* costume" gives a number in [1, c] other than the current one whatever the
\* random source returns, and every other number in [1, c] is the result for
\* some value of the random source.
C22_RandomCostumeDiffers ==
  /\ [](\A e \in Sprites :
          LET s == sprites[e] IN
            (s.costumes >= 2 /\ s.costumeNumber \in 1..s.costumes)
              => { WithCostumeNumber(s, RandomCostume(s, r)).costumeNumber :
                     r \in RandomDraws(s) }
                 = (1..s.costumes) \ {s.costumeNumber})
  /\ [][\A e \in Sprites : \A r \in RandomDraws(sprites[e]) :
          (/\ sprites[e].costumes >= 2
           /\ sprites[e].costumeNumber \in 1..sprites[e].costumes
           /\ RandomCostumeCall(e, r))
            => /\ sprites'[e].costumeNumber \in 1..sprites[e].costumes
               /\ sprites'[e].costumeNumber # sprites[e].costumeNumber]_vars

\* a clone with three costumes showed the second one, the random source gave
\* the second of its two values, and the call stepped over to the third
C22_Witness ==
  /\ randomCall = [sprite |-> 2, from |-> 2, draw |-> 1]
  /\ sprites[2].costumes = 3
  /\ sprites[2].costumeNumber = 3

====
